---------------------------- MODULE Spec2Model ----------------------------
(***************************************************************************)
(* Model of lxd/network/driver_common.go: the base network entity shared   *)
(* by every network driver.  Each cluster member holds one in-memory       *)
(* entity (struct common); the cluster database holds the one record of    *)
(* the network; every member has its own resource directories under        *)
(* networks/<name>.  The operations update, rename and delete are          *)
(* translated statement by statement; the collaborators they call (the     *)
(* cluster notifier, the database, the file system) may fail.              *)
(***************************************************************************)
EXTENDS Integers, Sequences, FiniteSets, TLC

\* ------------------------------------------------------------------ bounds

\* Number of cluster members.
NumNodes == 3
\* Number of top-level operations (update, rename, delete) started in a run.
MaxCalls == 2
\* Number of collaborator failures (notifier, peer, database, file system)
\* that happen in a run although the call could have succeeded.
MaxFailures == 1

Nodes == 1..NumNodes

\* ------------------------------------------------------------------ values

Names == {"a", "b", "c"}

\* db.NodeSpecificNetworkConfig: the keys that are never forwarded to peers.
NodeSpecificNetworkConfig == {"bridge.external_interfaces"}
Keys == {"ipv4.address"} \cup NodeSpecificNetworkConfig

\* api.NetworkPut is a description and a config; a config is a Go
\* map[string]string: a function from some keys to values.
\* The requests made of update.  update reads its request only through the
\* test whether a key is node specific, so the requests hold each mix of
\* node-specific and other keys, with values and descriptions that differ.
Requests ==
    {[description |-> "d1", config |-> [k \in {"ipv4.address"} |-> "2"]],
     [description |-> "d1", config |-> [k \in Keys |-> IF k = "ipv4.address" THEN "1" ELSE "2"]],
     [description |-> "d0", config |-> [k \in NodeSpecificNetworkConfig |-> "1"]],
     [description |-> "d0", config |-> [k \in {} |-> "1"]]}

\* targetNode of update: "" (cluster-wide) or the name of one member.
TargetNodes == {"", "node1"}

\* The database holds no record of the network (after DeleteNetwork).
NoRecord == "<none>"

\* shared.StringInSlice(k, list)
StringInSlice(k, list) == k \in list


\* config[k] of a Go map: the empty string when the key is absent.
Get(config, k) == IF k \in DOMAIN config THEN config[k] ELSE ""

\* ------------------------------------------------------------------- state

VARIABLES
    mem,      \* mem[n]: the in-memory entity (struct common) of member n
    db,       \* the network's record in the cluster database
    fs,       \* fs[n]: the names that have a resource directory on member n
    pc,       \* pc[n]: where member n's running operation stands
    call,     \* call[n]: the arguments and locals of member n's operation
    net,      \* notifications sent by a notifier and not yet handled
    replies,  \* replies[n][p]: what peer p answered to n's notification
    result,   \* result[n]: what member n's last operation returned
    stat,     \* what has been invoked since the last operation began
    ncalls,   \* number of operations started
    nfail,    \* number of collaborator failures so far
    held      \* the specs (api.NetworkPut) that the entity's caller holds

vars ==
    <<mem, db, fs, pc, call, net, replies, result, stat, ncalls, nfail, held>>

Peers(n) == Nodes \ {n}

\* ----------------------------------------------------------- the entity

\* common.init: sets every field of the entity.
init(e, id, name, netType, description, config, status) ==
    [id |-> id, name |-> name, netType |-> netType,
     description |-> description, config |-> config, status |-> status]

\* update, its first statement: n.description takes the request's.
AssignDescription(e, applyNetwork) ==
    [e EXCEPT !.description = applyNetwork.description]

\* A slip: update puts the status back as well.
AssignConfigResetsStatus(e, applyNetwork) ==
    [e EXCEPT !.config = applyNetwork.config, !.status = "Pending"]

\* update, its second statement: n.config takes the request's.
AssignConfig(e, applyNetwork) ==
    [e EXCEPT !.config = applyNetwork.config]

\* A slip: the request's config is sent as it is, node-specific keys too.
SendNetworkUnfiltered(applyNetwork) ==
    [description |-> applyNetwork.description, config |-> applyNetwork.config]

\* A slip: the test of the filter is the wrong way round.
SendNetworkInverted(applyNetwork) ==
    [description |-> applyNetwork.description,
     config |-> [k \in {x \in DOMAIN applyNetwork.config :
                          StringInSlice(x, NodeSpecificNetworkConfig)}
                   |-> applyNetwork.config[k]]]

\* update, the copy sent to the peers: applyNetwork with a fresh config map
\* holding every key of applyNetwork.Config that is not node specific.
SendNetwork(applyNetwork) ==
    [description |-> applyNetwork.description,
     config |-> [k \in {x \in DOMAIN applyNetwork.config :
                          ~StringInSlice(x, NodeSpecificNetworkConfig)}
                   |-> applyNetwork.config[k]]]

\* The keys of a config that are node specific, with their values.
NodeOwn(config) ==
    [k \in {x \in DOMAIN config : StringInSlice(x, NodeSpecificNetworkConfig)}
       |-> config[k]]

\* The member that receives sendNetwork merges its own node-specific keys in
\* before its handler calls update: the request that update is given holds
\* sendNetwork's description and keys, and the node-specific keys of the
\* member's own config with the member's values.
MergeNodeSpecific(sendNetwork, config) ==
    [description |-> sendNetwork.description,
     config |-> [k \in DOMAIN sendNetwork.config \cup DOMAIN NodeOwn(config) |->
                   IF k \in DOMAIN NodeOwn(config) THEN config[k]
                   ELSE sendNetwork.config[k]]]

\* A slip: the clusterNotification flag is not looked at.
UpdateBranchIgnoringFlag(targetNode, clusterNotification) ==
    IF targetNode = "" THEN "notifier" ELSE "persist"

\* A slip: the flag is looked at only when no target node is given.
UpdateBranchTargetFirst(targetNode, clusterNotification) ==
    IF targetNode # "" THEN "persist"
    ELSE IF clusterNotification THEN "idle" ELSE "notifier"

\* A slip: a top-level update goes to the database without notifying.
UpdateBranchPersistOnly(targetNode, clusterNotification) ==
    IF clusterNotification THEN "idle" ELSE "persist"

\* A slip: the target node is not looked at.
UpdateBranchIgnoringTarget(targetNode, clusterNotification) ==
    IF clusterNotification THEN "idle" ELSE "notifier"

\* update, the call made on every other member through the notifier:
\* client.UpdateNetwork(n.name, sendNetwork, "").
UpdateNetworkCall(name, sendNetwork) ==
    [name |-> name, put |-> sendNetwork, target |-> ""]

\* The notifier made with cluster.NotifyAll runs its hook once for every
\* other member: the calls that member n's notifier makes.
\* A call is sent, and stays with the member it was made on until that
\* member's handler has returned: stage tells how far the handler is, and
\* apply is the request the handler gives to update (the payload, until the
\* handler has merged the member's own keys in).
NotifyAll(n, req) ==
    {[from |-> n, to |-> p, req |-> req, stage |-> "sent", apply |-> req.put] :
        p \in Peers(n)}

\* The notifier returns an error when a member's call failed.
NotifierError(answers, n) == \E p \in Peers(n) : answers[p] = "err"

\* update, which branch follows the in-memory assignment.
UpdateBranch(targetNode, clusterNotification) ==
    IF clusterNotification THEN "idle"
    ELSE IF targetNode = "" THEN "notifier" ELSE "persist"

\* A slip: the record is removed whatever the flag says.
DeleteTouchesDbAlways(clusterNotification) == TRUE

\* delete: whether the database record is removed.
DeleteTouchesDb(clusterNotification) == ~clusterNotification

\* --------------------------------------------------------- the database

\* Cluster.UpdateNetwork(name, description, config): the record must exist.
DbUpdateNetwork(d, name, description, config) ==
    [d EXCEPT !.description = description, !.config = config]

\* Cluster.RenameNetwork(oldName, newName)
DbRenameNetwork(d, oldName, newName) == [d EXCEPT !.name = newName]

\* Cluster.DeleteNetwork(name)
DbDeleteNetwork(d, name) == [d EXCEPT !.name = NoRecord]

\* A database call on a name that has no record fails.
DbHas(d, name) == d.name = name

\* ------------------------------------------------------------ bookkeeping

NoCall == [op |-> "none", spec |-> [description |-> "d0", config |-> <<>>],
           target |-> "", send |-> [description |-> "d0", config |-> <<>>],
           newName |-> "a", notification |-> FALSE]

NoDbCall == [op |-> "none", name |-> "a", description |-> "d0",
             config |-> <<>>, newName |-> "a"]

\* The network as created: every member has loaded the record.
InitialEntity ==
    init(NoCall, 1, "a", "bridge", "d0", [k \in {"ipv4.address"} |-> "1"], "Created")

InitialRecord ==
    [name |-> InitialEntity.name, description |-> InitialEntity.description,
     config |-> InitialEntity.config]

NoResult == [op |-> "none", err |-> "nil"]

\* The caller of configChanged and update holds the spec it asks for
\* (newSpec) and the one configChanged returned (previousSpec).  A config is
\* a Go map, which is shared when it is assigned: alias names the specs whose
\* Config is the very map n.config, so that a write to one is a write to the
\* other.  stage says how far the caller is (configChanged has returned:
\* "taken"; update(newSpec) was called: "applied"; update(previousSpec) was
\* called: "restored"), before is the entity's description and config when
\* configChanged was called, and touched names the handles ("newSpec",
\* "previousSpec", "live" for n.config) through which a map was written
\* since.
NoHeld ==
    [stage |-> "none",
     newSpec |-> [description |-> "d0", config |-> <<>>],
     previousSpec |-> [description |-> "d0", config |-> <<>>],
     alias |-> {}, touched |-> {},
     before |-> [description |-> "d0", config |-> <<>>]]

StatZero ==
    [applied  |-> [p \in Nodes |-> 0],  \* runs of update(.., true) per member
     sent     |-> [p \in Nodes |-> 0],  \* notifications sent per member
     notifier |-> 0,                    \* cluster.NewNotifier calls
     dbUpdate |-> 0,                    \* Cluster.UpdateNetwork calls
     dbRename |-> 0,                    \* Cluster.RenameNetwork calls
     dbDelete |-> 0,                    \* Cluster.DeleteNetwork calls
     inits    |-> 0,                    \* runs of init
     moved    |-> 0,                    \* os.Rename calls that succeeded
     failed   |-> {},                   \* the collaborators that failed
     lastDb   |-> NoDbCall,             \* the last database call's arguments
     dbAtBegin |-> InitialRecord,       \* the record when the operation began
     entityAtBegin |-> InitialEntity,   \* the caller's entity at that time
     fsAtBegin |-> {},                  \* the caller's directories at that time
     ownAtBegin |-> [p \in Nodes |-> <<>>],  \* node-specific keys per member then
     alone    |-> TRUE]                 \* no other operation ran at that time

\* The bookkeeping of an operation that begins on member n.
BeginStat(n) ==
    [StatZero EXCEPT !.dbAtBegin = db, !.entityAtBegin = mem[n],
                     !.fsAtBegin = fs[n],
                     !.ownAtBegin = [p \in Nodes |-> NodeOwn(mem[p].config)],
                     !.alone = (net = {} /\ \A m \in Nodes : pc[m] = "idle")]

\* A collaborator's call comes out ok or not.  It fails when it cannot
\* succeed (possible is false); a failure of a call that could have succeeded
\* is counted.
Outcome(ok, possible) ==
    /\ ok => possible
    /\ (~ok /\ possible) => nfail < MaxFailures
    /\ nfail' = IF ~ok /\ possible THEN nfail + 1 ELSE nfail

\* An operation begins on member n: what the members that are not running
\* an operation returned before is forgotten.
Enter(n, c, nextpc, res) ==
    /\ pc[n] = "idle"
    /\ ncalls < MaxCalls
    /\ ncalls' = ncalls + 1
    /\ call' = [m \in Nodes |-> IF m = n THEN c
                                ELSE IF pc[m] = "idle" THEN NoCall ELSE call[m]]
    /\ result' = [m \in Nodes |-> IF m = n THEN res
                                  ELSE IF pc[m] = "idle" THEN NoResult ELSE result[m]]
    /\ pc' = [pc EXCEPT ![n] = nextpc]

Return(n, op, err) ==
    /\ pc' = [pc EXCEPT ![n] = "idle"]
    /\ result' = [result EXCEPT ![n] = [op |-> op, err |-> err]]

Init ==
    /\ mem = [n \in Nodes |-> InitialEntity]
    /\ db = InitialRecord
    /\ fs \in {[n \in Nodes |-> D] : D \in {{}, {"a"}, {"a", "b"}}}
    /\ pc = [n \in Nodes |-> "idle"]
    /\ call = [n \in Nodes |-> NoCall]
    /\ net = {}
    /\ replies = [n \in Nodes |-> [p \in Nodes |-> "none"]]
    /\ result = [n \in Nodes |-> NoResult]
    /\ stat = StatZero
    /\ ncalls = 0
    /\ nfail = 0
    /\ held = NoHeld

\* ------------------------------------------------------------------ update

\* update(applyNetwork, targetNode, clusterNotification) is called and
\* assigns the in-memory description.  update takes no lock, and the two
\* assignments are two stores: what else runs on the member (the handler of a
\* notification) may store between them.  What the caller holds is left to
\* the caller, who knows which of its specs it passed.
UpdateBegin(n, applyNetwork, targetNode, clusterNotification) ==
    /\ Enter(n, [NoCall EXCEPT !.op = "update", !.spec = applyNetwork,
                                !.target = targetNode,
                                !.notification = clusterNotification],
             "config", [op |-> "update", err |-> "running"])
    /\ mem' = [mem EXCEPT ![n] = AssignDescription(mem[n], applyNetwork)]
    /\ stat' = BeginStat(n)
    /\ UNCHANGED <<db, fs, net, replies, nfail>>

\* update assigns the in-memory config; a cluster notification then returns
\* nil.
UpdateConfig(n) ==
    /\ pc[n] = "config"
    /\ mem' = [mem EXCEPT ![n] = AssignConfig(mem[n], call[n].spec)]
    /\ pc' = [pc EXCEPT ![n] = UpdateBranch(call[n].target, call[n].notification)]
    /\ result' = [result EXCEPT ![n] =
                    IF UpdateBranch(call[n].target, call[n].notification) = "idle"
                    THEN [op |-> "update", err |-> "nil"] ELSE @]
    /\ UNCHANGED <<db, fs, call, net, replies, stat, ncalls, nfail, held>>

\* cluster.NewNotifier: when it fails update returns its error; otherwise
\* sendNetwork is built and the notifier calls every other member.
UpdateNotify(n, ok) ==
    /\ pc[n] = "notifier"
    /\ Outcome(ok, TRUE)
    /\ IF ok
       THEN /\ call' = [call EXCEPT ![n].send = SendNetwork(call[n].spec)]
            /\ net' = net \cup
                 NotifyAll(n, UpdateNetworkCall(mem[n].name, SendNetwork(call[n].spec)))
            /\ replies' = [replies EXCEPT ![n] = [p \in Nodes |-> "none"]]
            /\ pc' = [pc EXCEPT ![n] = "notifying"]
            /\ stat' = [stat EXCEPT !.notifier = @ + 1,
                                    !.sent[n] = @ + Cardinality(Peers(n))]
            /\ UNCHANGED result
       ELSE /\ Return(n, "update", "notifier")
            /\ stat' = [stat EXCEPT !.notifier = @ + 1,
                                    !.failed = @ \cup {"notifier"}]
            /\ UNCHANGED <<call, net, replies>>
    /\ UNCHANGED <<mem, db, fs, ncalls, held>>

\* A member receives client.UpdateNetwork(name, sendNetwork, ""): its handler
\* merges the member's node-specific keys into sendNetwork and runs update
\* with the result, "" and true on its entity, which assigns the description;
\* or the call fails (the member rejects it or cannot be reached) and changes
\* nothing there.  The handler runs beside whatever else runs on the member.
PeerUpdate(p, m, ok) ==
    /\ m \in net
    /\ m.to = p
    /\ m.stage = "sent"
    /\ Outcome(ok, TRUE)
    /\ IF ok
       THEN /\ mem' = [mem EXCEPT ![p] =
                         AssignDescription(mem[p],
                             MergeNodeSpecific(m.req.put, mem[p].config))]
            /\ net' = (net \ {m}) \cup
                     {[m EXCEPT !.stage = "description",
                                !.apply = MergeNodeSpecific(m.req.put,
                                                            mem[p].config)]}
            /\ UNCHANGED <<db, stat, replies>>
       ELSE /\ net' = net \ {m}
            /\ replies' = [replies EXCEPT ![m.from][p] = "err"]
            /\ stat' = [stat EXCEPT !.failed = @ \cup {"peer"}]
            /\ UNCHANGED <<mem, db>>
    /\ UNCHANGED <<fs, pc, call, result, ncalls, held>>

\* The handler's update assigns the config and returns, because UpdateBranch
\* says so; an update that went on would notify the member's own peers and
\* write the database as every update that goes on does.
PeerConfig(p, m) ==
    /\ m \in net
    /\ m.to = p
    /\ m.stage = "description"
    /\ mem' = [mem EXCEPT ![p] = AssignConfig(mem[p], m.apply)]
    /\ net' = (net \ {m}) \cup
             IF UpdateBranch(m.req.target, TRUE) = "notifier"
             THEN NotifyAll(p, UpdateNetworkCall(mem[p].name,
                                                 SendNetwork(m.apply)))
             ELSE {}
    /\ db' = IF UpdateBranch(m.req.target, TRUE) = "idle" THEN db
             ELSE DbUpdateNetwork(db, mem[p].name,
                                  m.apply.description, m.apply.config)
    /\ stat' = [stat EXCEPT
          !.applied[p] = @ + 1,
          !.sent[p] = IF UpdateBranch(m.req.target, TRUE) = "notifier"
                      THEN @ + Cardinality(Peers(p)) ELSE @,
          !.dbUpdate = IF UpdateBranch(m.req.target, TRUE) = "idle"
                       THEN @ ELSE @ + 1]
    /\ replies' = [replies EXCEPT ![m.from][p] = "ok"]
    /\ UNCHANGED <<fs, pc, call, result, ncalls, nfail, held>>

\* A slip: the notifier's error is not looked at before the database call.
UpdateNotifiedIgnoringError(n) ==
    /\ pc[n] = "notifying"
    /\ \A p \in Peers(n) : replies[n][p] # "none"
    /\ pc' = [pc EXCEPT ![n] = "persist"]
    /\ replies' = [replies EXCEPT ![n] = [p \in Nodes |-> "none"]]
    /\ UNCHANGED <<mem, db, fs, call, net, result, stat, ncalls, nfail, held>>

\* The notifier returns once every member has answered: the first error, or
\* nil and update goes on to the database.
UpdateNotified(n) ==
    /\ pc[n] = "notifying"
    /\ \A p \in Peers(n) : replies[n][p] # "none"
    /\ IF NotifierError(replies[n], n)
       THEN Return(n, "update", "peer")
       ELSE /\ pc' = [pc EXCEPT ![n] = "persist"]
            /\ UNCHANGED result
    /\ replies' = [replies EXCEPT ![n] = [p \in Nodes |-> "none"]]
    /\ UNCHANGED <<mem, db, fs, call, net, stat, ncalls, nfail, held>>

\* A change of behaviour: a failed database call puts the entity back.
UpdatePersistRollback(n, ok) ==
    /\ pc[n] = "persist"
    /\ Outcome(ok, DbHas(db, mem[n].name))
    /\ stat' = [stat EXCEPT !.dbUpdate = @ + 1,
                            !.failed = IF ok THEN @ ELSE @ \cup {"db"}]
    /\ db' = IF ok THEN DbUpdateNetwork(db, mem[n].name, call[n].spec.description,
                                        call[n].spec.config)
             ELSE db
    /\ mem' = IF ok THEN mem ELSE [mem EXCEPT ![n] = stat.entityAtBegin]
    /\ Return(n, "update", IF ok THEN "nil" ELSE "db")
    /\ UNCHANGED <<fs, call, net, replies, ncalls, held>>

\* A slip: the database is given sendNetwork, the request without the node's
\* own keys, in the place of applyNetwork.
UpdatePersistSent(n, ok) ==
    /\ pc[n] = "persist"
    /\ Outcome(ok, DbHas(db, mem[n].name))
    /\ stat' = [stat EXCEPT !.dbUpdate = @ + 1,
                            !.failed = IF ok THEN @ ELSE @ \cup {"db"},
                            !.lastDb = [NoDbCall EXCEPT !.op = "update",
                                          !.name = mem[n].name,
                                          !.description = call[n].spec.description,
                                          !.config = SendNetwork(call[n].spec).config]]
    /\ IF ok
       THEN /\ db' = DbUpdateNetwork(db, mem[n].name, call[n].spec.description,
                                     SendNetwork(call[n].spec).config)
            /\ Return(n, "update", "nil")
       ELSE /\ Return(n, "update", "db")
            /\ UNCHANGED db
    /\ UNCHANGED <<mem, fs, call, net, replies, ncalls, held>>

\* Cluster.UpdateNetwork(n.name, applyNetwork.Description, applyNetwork.Config)
UpdatePersist(n, ok) ==
    /\ pc[n] = "persist"
    /\ Outcome(ok, DbHas(db, mem[n].name))
    /\ stat' = [stat EXCEPT !.dbUpdate = @ + 1,
                            !.failed = IF ok THEN @ ELSE @ \cup {"db"},
                            !.lastDb = [NoDbCall EXCEPT !.op = "update",
                                          !.name = mem[n].name,
                                          !.description = call[n].spec.description,
                                          !.config = call[n].spec.config]]
    /\ IF ok
       THEN /\ db' = DbUpdateNetwork(db, mem[n].name, call[n].spec.description,
                                     call[n].spec.config)
            /\ Return(n, "update", "nil")
       ELSE /\ Return(n, "update", "db")
            /\ UNCHANGED db
    /\ UNCHANGED <<mem, fs, call, net, replies, ncalls, held>>

\* ------------------------------------------------------------------ rename

\* rename(newName) is called: a directory that exists for newName is removed
\* with os.RemoveAll, whose error is not looked at: when it fails the
\* directory stays and rename goes on.
RenameBegin(n, newName, removed) ==
    /\ Enter(n, [NoCall EXCEPT !.op = "rename", !.newName = newName],
             "move", [op |-> "rename", err |-> "running"])
    /\ Outcome(removed, TRUE)
    /\ removed \/ newName \in fs[n]
    /\ fs' = [fs EXCEPT ![n] = IF newName \in fs[n] /\ removed
                               THEN fs[n] \ {newName} ELSE fs[n]]
    /\ stat' = [BeginStat(n) EXCEPT
                  !.failed = IF removed THEN {} ELSE {"remove"}]
    /\ UNCHANGED <<mem, db, net, replies, held>>

\* A slip: the entity takes the new name as soon as the directory is moved.
RenameMoveThenInit(n, ok) ==
    /\ pc[n] = "move"
    /\ Outcome(ok, TRUE)
    /\ ok \/ mem[n].name \in fs[n]
    /\ IF ok
       THEN /\ fs' = [fs EXCEPT ![n] =
                        IF mem[n].name \in fs[n]
                        THEN (fs[n] \ {mem[n].name}) \cup {call[n].newName}
                        ELSE fs[n]]
            /\ mem' = [mem EXCEPT ![n].name = call[n].newName]
            /\ stat' = [stat EXCEPT !.moved =
                                 IF mem[n].name \in fs[n] THEN @ + 1 ELSE @]
            /\ pc' = [pc EXCEPT ![n] = "renamedb"]
            /\ UNCHANGED result
       ELSE /\ Return(n, "rename", "move")
            /\ stat' = [stat EXCEPT !.failed = @ \cup {"move"}]
            /\ UNCHANGED <<fs, mem>>
    /\ UNCHANGED <<db, call, net, replies, ncalls, held>>

\* The directory of the current name, when it exists, is moved to newName
\* with os.Rename; its error is returned.
RenameMove(n, ok) ==
    /\ pc[n] = "move"
    /\ Outcome(ok, TRUE)
    /\ ok \/ mem[n].name \in fs[n]
    /\ IF ok
       THEN /\ fs' = [fs EXCEPT ![n] =
                        IF mem[n].name \in fs[n]
                        THEN (fs[n] \ {mem[n].name}) \cup {call[n].newName}
                        ELSE fs[n]]
            /\ stat' = [stat EXCEPT !.moved =
                                 IF mem[n].name \in fs[n] THEN @ + 1 ELSE @]
            /\ pc' = [pc EXCEPT ![n] = "renamedb"]
            /\ UNCHANGED result
       ELSE /\ Return(n, "rename", "move")
            /\ stat' = [stat EXCEPT !.failed = @ \cup {"move"}]
            /\ UNCHANGED fs
    /\ UNCHANGED <<mem, db, call, net, replies, ncalls, held>>

\* Cluster.RenameNetwork(n.name, newName); its error is returned.
RenameDb(n, ok) ==
    /\ pc[n] = "renamedb"
    /\ Outcome(ok, DbHas(db, mem[n].name))
    /\ stat' = [stat EXCEPT !.dbRename = @ + 1,
                            !.failed = IF ok THEN @ ELSE @ \cup {"db"},
                            !.lastDb = [NoDbCall EXCEPT !.op = "rename",
                                          !.name = mem[n].name,
                                          !.newName = call[n].newName]]
    /\ IF ok
       THEN /\ db' = DbRenameNetwork(db, mem[n].name, call[n].newName)
            /\ pc' = [pc EXCEPT ![n] = "reinit"]
            /\ UNCHANGED result
       ELSE /\ Return(n, "rename", "db")
            /\ UNCHANGED db
    /\ UNCHANGED <<mem, fs, call, net, replies, ncalls, held>>

\* n.init(n.state, n.id, newName, n.netType, n.description, n.config, n.status)
RenameInit(n) ==
    /\ pc[n] = "reinit"
    /\ mem' = [mem EXCEPT ![n] =
                 init(mem[n], mem[n].id, call[n].newName, mem[n].netType,
                      mem[n].description, mem[n].config, mem[n].status)]
    /\ stat' = [stat EXCEPT !.inits = @ + 1]
    /\ Return(n, "rename", "nil")
    /\ UNCHANGED <<db, fs, call, net, replies, ncalls, nfail, held>>

\* ------------------------------------------------------------------ delete

\* delete(clusterNotification): Cluster.DeleteNetwork(n.name) unless the call
\* is a cluster notification.
Delete(n, clusterNotification, ok) ==
    /\ Enter(n, [NoCall EXCEPT !.op = "delete",
                                !.notification = clusterNotification],
             "idle", [op |-> "delete", err |-> IF ok THEN "nil" ELSE "db"])
    /\ IF DeleteTouchesDb(clusterNotification)
       THEN /\ Outcome(ok, DbHas(db, mem[n].name))
            /\ stat' = [BeginStat(n) EXCEPT !.dbDelete = 1,
                          !.failed = IF ok THEN {} ELSE {"db"},
                          !.lastDb = [NoDbCall EXCEPT !.op = "delete",
                                                      !.name = mem[n].name]]
            /\ db' = IF ok THEN DbDeleteNetwork(db, mem[n].name) ELSE db
       ELSE /\ ok
            /\ stat' = BeginStat(n)
            /\ UNCHANGED <<db, nfail>>
    /\ UNCHANGED <<mem, fs, net, replies, held>>

\* ------------------------------------------------------------ specifications

\* No operation is running and no notification is in flight.
Quiet == net = {} /\ \A n \in Nodes : pc[n] = "idle"

\* The steps of an update that has begun, on its member and on its peers.
UpdateSteps ==
    \/ \E n \in Nodes : UpdateConfig(n)
    \/ \E n \in Nodes, ok \in BOOLEAN : UpdateNotify(n, ok)
    \/ \E p \in Nodes, ok \in BOOLEAN : \E m \in net : PeerUpdate(p, m, ok)
    \/ \E p \in Nodes : \E m \in net : PeerConfig(p, m)
    \/ \E n \in Nodes : UpdateNotified(n)
    \/ \E n \in Nodes, ok \in BOOLEAN : UpdatePersist(n, ok)

\* The steps of a rename that has begun.
RenameSteps ==
    \/ \E n \in Nodes, ok \in BOOLEAN : RenameMove(n, ok)
    \/ \E n \in Nodes, ok \in BOOLEAN : RenameDb(n, ok)
    \/ \E n \in Nodes : RenameInit(n)

\* A client asks member n to update the network.
ClientUpdate(n) ==
    \E put \in Requests, t \in TargetNodes :
        UpdateBegin(n, put, t, FALSE) /\ UNCHANGED held

\* The steps of the updates that have begun when no collaborator fails.
UpdateStepsOk ==
    \/ \E n \in Nodes : UpdateConfig(n)
    \/ \E n \in Nodes : UpdateNotify(n, TRUE)
    \/ \E p \in Nodes : \E m \in net : PeerUpdate(p, m, TRUE)
    \/ \E p \in Nodes : \E m \in net : PeerConfig(p, m)
    \/ \E n \in Nodes : UpdateNotified(n)
    \/ \E n \in Nodes : UpdatePersist(n, TRUE)

\* The members that clients talk to; every member is a peer of the others.
Initiators == {1, 2}

\* The initiators serve update requests concurrently and no collaborator
\* fails.
Next ==
    \/ \E n \in Initiators : ClientUpdate(n)
    \/ UpdateStepsOk

Spec == Init /\ [][Next]_vars

\* The members serve update requests one at a time: a request is taken only
\* when the cluster is quiet.
SerialUpdate(n) == Quiet /\ ClientUpdate(n)

NextSerial ==
    \/ \E n \in Initiators : SerialUpdate(n)
    \/ UpdateSteps

SpecSerial == Init /\ [][NextSerial]_vars

\* The life of one member's entity: update (with any arguments), rename and
\* delete are called on it one after the other.
Self == 1

EntityUpdate ==
    \E put \in Requests, t \in TargetNodes, cn \in BOOLEAN :
        Quiet /\ UpdateBegin(Self, put, t, cn) /\ UNCHANGED held

EntityRename ==
    \E newName \in Names, removed \in BOOLEAN :
        Quiet /\ RenameBegin(Self, newName, removed)

EntityDelete ==
    \E cn \in BOOLEAN, ok \in BOOLEAN : Quiet /\ Delete(Self, cn, ok)

NextEntity ==
    \/ EntityUpdate
    \/ EntityRename
    \/ EntityDelete
    \/ UpdateSteps
    \/ RenameSteps

SpecEntity == Init /\ [][NextEntity]_vars

\* ---------------------------------------------------------------- validate

\* strings.HasPrefix(s, prefix)
HasPrefix(s, prefix) ==
    Len(s) >= Len(prefix) /\ SubSeq(s, 1, Len(prefix)) = prefix

\* The values of config keys that validate is tried on.
Values == {"", "1"}

\* A validator (func(value string) error) is given by the values for which
\* it returns nil: one that accepts everything and one that wants a value.
Validators == {Values, {"1"}}

\* validator(value) returns nil.
Accepts(validator, value) == value \in validator

\* The keys of the configs that validate is tried on: a driver key, a user
\* key, and a key that only looks like a user key.
ConfigKeys == {"ipv4.address", "user.note", "userx"}

\* The keys that driver rules are tried for: one of them a key that no
\* config has.
RuleKeys == {"ipv4.address", "mtu"}

ValidateConfigs == UNION {[D -> Values] : D \in SUBSET ConfigKeys}

DriverRules == UNION {[D -> Validators] : D \in SUBSET RuleKeys}

\* common.validationRules(): the rules common to all drivers, an empty map.
validationRules == [k \in {} |-> Values]

\* validate, the merge: rules[field] = validator for every driver rule.
MergeRules(rules, driverRules) ==
    [k \in DOMAIN rules \cup DOMAIN driverRules |->
        IF k \in DOMAIN driverRules THEN driverRules[k] ELSE rules[k]]

\* A slip: keys that start with "user." are not let through.
UnknownFieldNoUserKeys(k, checkedFields) == k \notin checkedFields

\* validate, second loop: key k of the config is neither checked nor a user
\* key.
UnknownField(k, checkedFields) ==
    k \notin checkedFields /\ ~HasPrefix(k, "user.")

\* validate(config, driverRules) is called: the rules are merged.
ValidateBegin(n, config, driverRules) ==
    /\ Enter(n, [op |-> "validate", config |-> config,
                 driverRules |-> driverRules,
                 rules |-> MergeRules(validationRules, driverRules),
                 checkedFields |-> {}],
             "rules", [op |-> "validate", err |-> "running"])
    /\ stat' = BeginStat(n)
    /\ UNCHANGED <<mem, db, fs, net, replies, nfail, held>>

\* validate, first loop: the next rule (in the order in which Go ranges over
\* the map, which is any order) is marked as checked and its validator is run
\* on config[k]; its error is returned, wrapped with the name and the key.
ValidateRule(n, k) ==
    /\ pc[n] = "rules"
    /\ k \in DOMAIN call[n].rules \ call[n].checkedFields
    /\ call' = [call EXCEPT ![n].checkedFields = @ \cup {k}]
    /\ IF Accepts(call[n].rules[k], Get(call[n].config, k))
       THEN UNCHANGED <<pc, result>>
       ELSE Return(n, "validate", <<"Invalid value", mem[n].name, k>>)
    /\ UNCHANGED <<mem, db, fs, net, replies, stat, ncalls, nfail, held>>

\* validate, second loop, once every rule has passed: the first key of the
\* config found to be unknown is an error; with none, validate returns nil.
ValidateFields(n) ==
    /\ pc[n] = "rules"
    /\ call[n].checkedFields = DOMAIN call[n].rules
    /\ LET unknown == {k \in DOMAIN call[n].config :
                          UnknownField(k, call[n].checkedFields)}
       IN  IF unknown = {}
           THEN Return(n, "validate", "nil")
           ELSE \E k \in unknown :
                   Return(n, "validate", <<"Invalid option", mem[n].name, k>>)
    /\ UNCHANGED <<mem, db, fs, call, net, replies, stat, ncalls, nfail, held>>

\* validate is called on one member's entity, one call after the other.
NextValidate ==
    \/ \E config \in ValidateConfigs, driverRules \in DriverRules :
          Quiet /\ ValidateBegin(Self, config, driverRules)
    \/ \E k \in RuleKeys : ValidateRule(Self, k)
    \/ ValidateFields(Self)

SpecValidate == Init /\ [][NextValidate]_vars

\* ------------------------------------------------------------ configChanged

\* The elements of a Go slice.
Elems(list) == {list[i] : i \in DOMAIN list}

\* shared.DeepCopy(&n.config, &oldNetwork.Config): oldNetwork.Config holds
\* the keys and values of n.config.
DeepCopy(config) == [k \in DOMAIN config |-> config[k]]

\* A slip: oldNetwork.Config is n.config itself, not a copy.
SnapshotAliasLive == {"previousSpec"}

\* The specs of the caller whose Config is the map n.config once
\* configChanged has returned: none, as oldNetwork.Config is a map of its
\* own and newNetwork is only read.
SnapshotAlias == {}

\* A call that reads the entity begins on member n; it is not counted among
\* the operations.
Query(n, c, nextpc, res) ==
    /\ pc[n] = "idle"
    /\ call' = [m \in Nodes |-> IF m = n THEN c
                                ELSE IF pc[m] = "idle" THEN NoCall ELSE call[m]]
    /\ result' = [m \in Nodes |-> IF m = n THEN res
                                  ELSE IF pc[m] = "idle" THEN NoResult ELSE result[m]]
    /\ pc' = [pc EXCEPT ![n] = nextpc]
    /\ UNCHANGED ncalls

\* configChanged(newNetwork) is called: the current state is backed up in
\* oldNetwork and the descriptions are compared.  When shared.DeepCopy fails
\* configChanged returns false, nil, oldNetwork and the error at once, with
\* oldNetwork.Config the empty map it was made with.
ConfigChangedCall(n, newNetwork, ok) ==
    /\ Outcome(ok, TRUE)
    /\ Query(n, [op |-> "configChanged", newNetwork |-> newNetwork,
                 oldNetwork |-> [description |-> mem[n].description,
                                 config |-> IF ok THEN DeepCopy(mem[n].config)
                                            ELSE <<>>],
                 changedKeys |-> <<>>,
                 dbUpdateNeeded |-> ok /\ newNetwork.description # mem[n].description,
                 todoOld |-> IF ok THEN DOMAIN mem[n].config ELSE {},
                 todoNew |-> IF ok THEN DOMAIN newNetwork.config ELSE {}],
             IF ok THEN "diff" ELSE "idle",
             IF ok THEN [op |-> "configChanged", err |-> "running"]
             ELSE [op |-> "configChanged", err |-> "copy",
                   changed |-> FALSE, changedKeys |-> <<>>, keysNil |-> TRUE,
                   previous |-> [description |-> mem[n].description,
                                 config |-> <<>>]])
    /\ stat' = [BeginStat(n) EXCEPT !.failed = IF ok THEN {} ELSE {"copy"}]
    /\ UNCHANGED <<mem, db, fs, net, replies>>

\* configChanged is called by a caller that holds newNetwork and will hold
\* oldNetwork.
ConfigChangedBegin(n, newNetwork, ok) ==
    /\ ConfigChangedCall(n, newNetwork, ok)
    /\ held' = [NoHeld EXCEPT !.newSpec = newNetwork,
                  !.before = [description |-> mem[n].description,
                              config |-> mem[n].config]]

\* A slip: a key is added to the list without looking whether it is there.
DiffKeyAppendAlways(c, k, v, other) ==
    IF v # other
    THEN [c EXCEPT !.dbUpdateNeeded = TRUE,
                   !.changedKeys = IF ~HasPrefix(k, "user.")
                                   THEN Append(@, k) ELSE @]
    ELSE c

\* configChanged, the body of both loops: key k has value v in the map that
\* is ranged over and value other (config[k]) in the other map.
DiffKey(c, k, v, other) ==
    IF v # other
    THEN [c EXCEPT !.dbUpdateNeeded = TRUE,
                   !.changedKeys =
                       IF ~HasPrefix(k, "user.") /\ ~StringInSlice(k, Elems(@))
                       THEN Append(@, k) ELSE @]
    ELSE c

\* configChanged, first loop: the next key of oldNetwork.Config, in any order.
ConfigChangedOld(n, k) ==
    /\ pc[n] = "diff"
    /\ k \in call[n].todoOld
    /\ call' = [call EXCEPT ![n] =
                  DiffKey([call[n] EXCEPT !.todoOld = @ \ {k}], k,
                          call[n].oldNetwork.config[k],
                          Get(call[n].newNetwork.config, k))]
    /\ UNCHANGED <<mem, db, fs, pc, net, replies, result, stat, ncalls, nfail,
                   held>>

\* configChanged, second loop: the next key of newNetwork.Config.
ConfigChangedNew(n, k) ==
    /\ pc[n] = "diff"
    /\ call[n].todoOld = {}
    /\ k \in call[n].todoNew
    /\ call' = [call EXCEPT ![n] =
                  DiffKey([call[n] EXCEPT !.todoNew = @ \ {k}], k,
                          call[n].newNetwork.config[k],
                          Get(call[n].oldNetwork.config, k))]
    /\ UNCHANGED <<mem, db, fs, pc, net, replies, result, stat, ncalls, nfail,
                   held>>

\* configChanged returns dbUpdateNeeded, changedKeys, oldNetwork, nil; what
\* the caller does with oldNetwork is left to the caller.
ConfigChangedResult(n) ==
    /\ pc[n] = "diff"
    /\ call[n].todoOld = {}
    /\ call[n].todoNew = {}
    /\ pc' = [pc EXCEPT ![n] = "idle"]
    /\ result' = [result EXCEPT ![n] =
                    [op |-> "configChanged", err |-> "nil",
                     changed |-> call[n].dbUpdateNeeded,
                     changedKeys |-> call[n].changedKeys, keysNil |-> FALSE,
                     previous |-> call[n].oldNetwork]]
    /\ UNCHANGED <<mem, db, fs, call, net, replies, stat, ncalls, nfail>>

\* configChanged returns to a caller that keeps oldNetwork to revert with.
ConfigChangedReturn(n) ==
    /\ ConfigChangedResult(n)
    /\ held' = [held EXCEPT !.stage = "taken",
                            !.previousSpec = call[n].oldNetwork,
                            !.alias = SnapshotAlias]

\* The configs that configChanged is tried on: two keys that are not user
\* keys and a user key, with the values they take (the empty string too).
DiffKeys == {"ipv4.address", "mtu", "user.note"}

DiffValues(k) ==
    IF k = "ipv4.address" THEN {"", "1", "2"}
    ELSE IF k = "mtu" THEN {"1"} ELSE {"1", "2"}

DiffConfigs ==
    UNION {{c \in [D -> {"", "1", "2"}] : \A k \in D : c[k] \in DiffValues(k)} :
              D \in SUBSET DiffKeys}

DiffSpecs == [description : {"d0", "d1"}, config : DiffConfigs]

\* An entity as init makes it from a record with any of these configs.
InitDiff ==
    /\ \E config \in DiffConfigs :
          /\ mem = [n \in Nodes |->
                       init(NoCall, 1, "a", "bridge", "d0", config, "Created")]
          /\ db = [name |-> "a", description |-> "d0", config |-> config]
    /\ fs = [n \in Nodes |-> {"a"}]
    /\ pc = [n \in Nodes |-> "idle"]
    /\ call = [n \in Nodes |-> NoCall]
    /\ net = {}
    /\ replies = [n \in Nodes |-> [p \in Nodes |-> "none"]]
    /\ result = [n \in Nodes |-> NoResult]
    /\ stat = StatZero
    /\ ncalls = 0
    /\ nfail = 0
    /\ held = NoHeld

\* The steps of a configChanged that has begun.
ConfigChangedSteps ==
    \/ \E k \in DiffKeys \cup Keys : ConfigChangedOld(Self, k)
    \/ \E k \in DiffKeys \cup Keys : ConfigChangedNew(Self, k)
    \/ ConfigChangedReturn(Self)

\* configChanged is called on one member's entity, one call after the other.
NextDiff ==
    \/ \E newNetwork \in DiffSpecs, ok \in BOOLEAN :
          Quiet /\ ConfigChangedBegin(Self, newNetwork, ok)
    \/ ConfigChangedSteps

SpecDiff == InitDiff /\ [][NextDiff]_vars

\* ------------------------------------------------------------------ IsUsed

\* Longest list of instances, and of profiles, that IsUsed is tried on.
MaxItems == 2

\* An instance or a profile, as IsUsed sees it: the networks it refers to,
\* and whether asking it fails.
Usages ==
    {[refs |-> {"a"}, err |-> FALSE], [refs |-> {"b"}, err |-> FALSE],
     [refs |-> {}, err |-> TRUE]}

UsageLists == UNION {[1..len -> Usages] : len \in 0..MaxItems}

\* IsInUseByInstance(state, inst, name) and IsInUseByProfile(state, profile,
\* name): the item refers to the network of that name, or the question fails.
IsInUse(item, name) ==
    IF item.err THEN "err" ELSE IF name \in item.refs THEN "true" ELSE "false"

\* A slip: an item that cannot be asked is passed over.
ExamineSkipErrors(inUse) ==
    IF inUse = "true" THEN "hit" ELSE "next"

\* IsUsed, the body of both loops: an error is returned, a hit returns true,
\* otherwise the loop goes on.
Examine(inUse) ==
    IF inUse = "err" THEN "err"
    ELSE IF inUse = "true" THEN "hit" ELSE "next"

\* IsUsed() is called while the daemon has these instances;
\* instance.LoadFromAllProjects returns them or fails.
IsUsedBegin(n, instances, ok) ==
    /\ Query(n, [op |-> "IsUsed", instances |-> instances,
                 profiles |-> <<>>,
                 insts |-> IF ok THEN instances ELSE <<>>,
                 loaded |-> FALSE, i |-> 1, j |-> 1],
             IF ok THEN "instances" ELSE "idle",
             IF ok THEN [op |-> "IsUsed", used |-> FALSE, err |-> "running"]
             ELSE [op |-> "IsUsed", used |-> FALSE,
                   err |-> "LoadFromAllProjects"])
    /\ Outcome(ok, TRUE)
    /\ stat' = [BeginStat(n) EXCEPT
                  !.failed = IF ok THEN {} ELSE {"LoadFromAllProjects"}]
    /\ UNCHANGED <<mem, db, fs, net, replies, held>>

\* IsUsed, first loop: the next instance is asked about n.name.
IsUsedInstance(n) ==
    /\ pc[n] = "instances"
    /\ call[n].i <= Len(call[n].insts)
    /\ LET e == Examine(IsInUse(call[n].insts[call[n].i], mem[n].name))
       IN  /\ pc' = [pc EXCEPT ![n] = IF e = "next" THEN "instances" ELSE "idle"]
           /\ result' = [result EXCEPT ![n] =
                 IF e = "err"
                 THEN [op |-> "IsUsed", used |-> FALSE, err |-> "IsInUseByInstance"]
                 ELSE IF e = "hit"
                 THEN [op |-> "IsUsed", used |-> TRUE, err |-> "nil"]
                 ELSE @]
    /\ call' = [call EXCEPT ![n].i = @ + 1]
    /\ UNCHANGED <<mem, db, fs, net, replies, stat, ncalls, nfail, held>>

\* IsUsed, after the first loop: tx.GetProfiles returns the profiles that
\* the daemon has by now, or fails.
IsUsedProfiles(n, profiles, ok) ==
    /\ pc[n] = "instances"
    /\ call[n].i > Len(call[n].insts)
    /\ Outcome(ok, TRUE)
    /\ call' = [call EXCEPT ![n].loaded = ok,
                            ![n].profiles = IF ok THEN profiles ELSE <<>>]
    /\ stat' = [stat EXCEPT !.failed = IF ok THEN @ ELSE @ \cup {"GetProfiles"}]
    /\ IF ok
       THEN pc' = [pc EXCEPT ![n] = "profiles"] /\ UNCHANGED result
       ELSE /\ pc' = [pc EXCEPT ![n] = "idle"]
            /\ result' = [result EXCEPT ![n] =
                  [op |-> "IsUsed", used |-> FALSE, err |-> "GetProfiles"]]
    /\ UNCHANGED <<mem, db, fs, net, replies, ncalls, held>>

\* IsUsed, second loop: the next profile is asked about n.name; after the
\* last, IsUsed returns false.
IsUsedProfile(n) ==
    /\ pc[n] = "profiles"
    /\ IF call[n].j <= Len(call[n].profiles)
       THEN LET e == Examine(IsInUse(call[n].profiles[call[n].j], mem[n].name))
            IN  /\ pc' = [pc EXCEPT ![n] =
                            IF e = "next" THEN "profiles" ELSE "idle"]
                /\ result' = [result EXCEPT ![n] =
                      IF e = "err"
                      THEN [op |-> "IsUsed", used |-> FALSE,
                            err |-> "IsInUseByProfile"]
                      ELSE IF e = "hit"
                      THEN [op |-> "IsUsed", used |-> TRUE, err |-> "nil"]
                      ELSE @]
                /\ call' = [call EXCEPT ![n].j = @ + 1]
       ELSE /\ pc' = [pc EXCEPT ![n] = "idle"]
            /\ result' = [result EXCEPT ![n] =
                  [op |-> "IsUsed", used |-> FALSE, err |-> "nil"]]
            /\ UNCHANGED call
    /\ UNCHANGED <<mem, db, fs, net, replies, stat, ncalls, nfail, held>>

\* An entity as init makes it, under either name.
InitUsed ==
    /\ \E name \in {"a", "b"} :
          /\ mem = [n \in Nodes |->
                       init(NoCall, 1, name, "bridge", "d0",
                            InitialEntity.config, "Created")]
          /\ db = [InitialRecord EXCEPT !.name = name]
          /\ fs = [n \in Nodes |-> {name}]
    /\ pc = [n \in Nodes |-> "idle"]
    /\ call = [n \in Nodes |-> NoCall]
    /\ net = {}
    /\ replies = [n \in Nodes |-> [p \in Nodes |-> "none"]]
    /\ result = [n \in Nodes |-> NoResult]
    /\ stat = StatZero
    /\ ncalls = 0
    /\ nfail = 0
    /\ held = NoHeld

\* IsUsed is called on one member's entity, one call after the other.
NextUsed ==
    \/ \E instances \in UsageLists, ok \in BOOLEAN :
          Quiet /\ IsUsedBegin(Self, instances, ok)
    \/ IsUsedInstance(Self)
    \/ \E profiles \in UsageLists, ok \in BOOLEAN :
          IsUsedProfiles(Self, profiles, ok)
    \/ IsUsedProfile(Self)

SpecUsed == InitUsed /\ [][NextUsed]_vars

\* ------------------------------------------------------------- DHCP ranges

\* Largest number of comma-separated entries in a ranges value that is tried.
MaxParts == 2

\* A string of this part is the sequence of its runes (Unicode code points),
\* so that it can hold any character; "" is <<>>.

\* The printable ASCII characters from U+0020 to U+005F and from U+0061 to
\* U+007E, in order (a string here cannot hold U+0060).
PrintableLow == " !\"#$%&'()*+,-./0123456789:;<=>?@ABCDEFGHIJKLMNOPQRSTUVWXYZ[\\]^_"
PrintableHigh == "abcdefghijklmnopqrstuvwxyz{|}~"

\* The place of character c in string s, 0 when s does not hold it.
Place(s, c) ==
    IF \E i \in 1..Len(s) : SubSeq(s, i, i) = c
    THEN CHOOSE i \in 1..Len(s) : SubSeq(s, i, i) = c
    ELSE 0

\* The rune of a character written in ASCII.
Rune(c) ==
    CASE c = "\t" -> 9
      [] c = "\n" -> 10
      [] c = "\f" -> 12
      [] c = "\r" -> 13
      [] Place(PrintableLow, c) > 0 -> 31 + Place(PrintableLow, c)
      [] Place(PrintableHigh, c) > 0 -> 96 + Place(PrintableHigh, c)

\* []rune(s) of a string written in ASCII.
Runes(s) == [i \in 1..Len(s) |-> Rune(SubSeq(s, i, i))]

\* strings.Index(s, sep) for a separator of one character, counted from 1;
\* 0 when s does not hold it.
Index(s, sep) ==
    IF \E i \in 1..Len(s) : SubSeq(s, i, i) = sep
    THEN CHOOSE i \in 1..Len(s) :
            /\ SubSeq(s, i, i) = sep
            /\ \A j \in 1..(i - 1) : SubSeq(s, j, j) # sep
    ELSE 0

\* strings.SplitN(s, sep, n) for n > 0: at most n substrings, the last one
\* the unsplit rest.
RECURSIVE SplitN(_, _, _)
SplitN(s, sep, n) ==
    IF n = 1 \/ Index(s, sep) = 0 THEN <<s>>
    ELSE <<SubSeq(s, 1, Index(s, sep) - 1)>> \o
         SplitN(SubSeq(s, Index(s, sep) + 1, Len(s)), sep, n - 1)

\* strings.Split(s, sep): every substring between separators.
Split(s, sep) == SplitN(s, sep, Len(s) + 1)

\* unicode.IsSpace: the runes that strings.TrimSpace removes.  These are tab,
\* line feed, vertical tab, form feed, carriage return, space, U+0085 and
\* U+00A0, and above U+00FF the runes of the White_Space property: U+1680,
\* U+2000 to U+200A, U+2028, U+2029, U+202F, U+205F and U+3000.
WhiteSpace ==
    {9, 10, 11, 12, 13, 32, 133, 160, 5760} \cup (8192..8202) \cup
    {8232, 8233, 8239, 8287, 12288}

\* strings.TrimSpace(s): s without leading and trailing white space.
RECURSIVE TrimSpace(_)
TrimSpace(s) ==
    IF Len(s) > 0 /\ s[1] \in WhiteSpace
    THEN TrimSpace(SubSeq(s, 2, Len(s)))
    ELSE IF Len(s) > 0 /\ s[Len(s)] \in WhiteSpace
    THEN TrimSpace(SubSeq(s, 1, Len(s) - 1))
    ELSE s

\* The IP literals that occur in the values tried.
IPv4Literals == {"1.1.1.1", "1.1.1.9"}
IPv6Literals == {"fd::1", "fd::9"}

\* A net.IP: nil, or an address in its 4-byte or its 16-byte form.
NilIP == [form |-> "nil", addr |-> ""]

\* net.ParseIP(s): the address in 16-byte form, nil when s is not a literal.
ParseIP(s) ==
    IF \E lit \in IPv4Literals \cup IPv6Literals : Runes(lit) = s
    THEN [form |-> "16-byte",
          addr |-> CHOOSE lit \in IPv4Literals \cup IPv6Literals : Runes(lit) = s]
    ELSE NilIP

\* ip.To4(): the 4-byte form of an IPv4 address, nil otherwise (and of nil).
To4(ip) ==
    IF ip.addr \in IPv4Literals THEN [form |-> "4-byte", addr |-> ip.addr]
    ELSE NilIP

\* ip.To16(): the 16-byte form of an address, nil of nil.
To16(ip) ==
    IF ip.addr \in IPv4Literals \cup IPv6Literals
    THEN [form |-> "16-byte", addr |-> ip.addr]
    ELSE NilIP

\* The coercion of the two entry points.
Coerce(ip, family) == IF family = "ipv4" THEN To4(ip) ELSE To16(ip)

\* make([]DHCPRange, 0): an empty slice that is not nil.
EmptyRanges == [isNil |-> FALSE, items |-> <<>>]

\* The loop of DHCPv4Ranges and DHCPv6Ranges over the entries from the given
\* one on: an entry that splits in two at its first hyphen appends a range of
\* the two parsed and coerced parts.
RECURSIVE RangesFrom(_, _, _, _)
RangesFrom(entries, i, family, dhcpRanges) ==
    IF i > Len(entries) THEN dhcpRanges
    ELSE LET parts == SplitN(TrimSpace(entries[i]), Runes("-"), 2)
         IN  RangesFrom(entries, i + 1, family,
                IF Len(parts) = 2
                THEN [dhcpRanges EXCEPT !.items =
                        Append(@, [Start |-> Coerce(ParseIP(parts[1]), family),
                                   End |-> Coerce(ParseIP(parts[2]), family)])]
                ELSE dhcpRanges)

\* config[k] of a Go map whose values are held as runes.
GetRunes(config, k) == IF k \in DOMAIN config THEN config[k] ELSE <<>>

\* DHCPv4Ranges() and DHCPv6Ranges() on a config.
DHCPRanges(config, family) ==
    IF GetRunes(config, family \o ".dhcp.ranges") # <<>>
    THEN RangesFrom(Split(GetRunes(config, family \o ".dhcp.ranges"),
                          Runes(",")), 1, family, EmptyRanges)
    ELSE EmptyRanges

\* DHCPv4Ranges() or DHCPv6Ranges() is called and returns.
DHCPRangesCall(n, family) ==
    /\ Query(n, [op |-> "DHCPRanges", family |-> family], "idle",
             [op |-> "DHCPRanges", err |-> "nil",
              ranges |-> DHCPRanges(mem[n].config, family)])
    /\ stat' = BeginStat(n)
    /\ UNCHANGED <<mem, db, fs, net, replies, nfail, held>>

\* The entries tried: well formed, with spaces around, with a tab before and
\* a line feed after, with U+00A0 before and U+0085 after, with U+2003 before
\* and a vertical tab after, with white space at the hyphen, with a part that
\* is no literal, without hyphen, with two hyphens, of the other family, and
\* empty.
RangeEntries ==
    {Runes("1.1.1.1-1.1.1.9"), Runes(" 1.1.1.1-1.1.1.9 "),
     Runes("\t1.1.1.1-1.1.1.9\n"),
     <<160>> \o Runes("1.1.1.1-1.1.1.9") \o <<133>>,
     <<8195>> \o Runes("1.1.1.1-1.1.1.9") \o <<11>>,
     Runes("1.1.1.1 - 1.1.1.9"), Runes("1.1.1.1-x"), Runes("1.1.1.1"),
     Runes("1.1.1.1-1.1.1.9-1.1.1.9"), Runes("fd::1-fd::9"), <<>>}

\* strings.Join(list, sep)
RECURSIVE Join(_, _)
Join(list, sep) ==
    IF Len(list) = 0 THEN <<>>
    ELSE IF Len(list) = 1 THEN list[1]
    ELSE list[1] \o sep \o Join(Tail(list), sep)

RangeValues ==
    {Join(list, Runes(",")) :
        list \in UNION {[1..len -> RangeEntries] : len \in 1..MaxParts}}

\* An entity as init makes it, with or without a ranges key.
InitRanges ==
    /\ \E config \in {InitialEntity.config} \cup
                     {[k \in {key} |-> v] :
                         key \in {"ipv4.dhcp.ranges", "ipv6.dhcp.ranges"},
                         v \in RangeValues} :
          /\ mem = [n \in Nodes |->
                       init(NoCall, 1, "a", "bridge", "d0", config, "Created")]
          /\ db = [name |-> "a", description |-> "d0", config |-> config]
    /\ fs = [n \in Nodes |-> {"a"}]
    /\ pc = [n \in Nodes |-> "idle"]
    /\ call = [n \in Nodes |-> NoCall]
    /\ net = {}
    /\ replies = [n \in Nodes |-> [p \in Nodes |-> "none"]]
    /\ result = [n \in Nodes |-> NoResult]
    /\ stat = StatZero
    /\ ncalls = 0
    /\ nfail = 0
    /\ held = NoHeld

NextRanges ==
    \/ DHCPRangesCall(Self, "ipv4")
    \/ DHCPRangesCall(Self, "ipv6")

SpecRanges == InitRanges /\ [][NextRanges]_vars

\* ------------------------------------------------ the keys of the config

\* The rules of the driver that embeds the entity: it knows the keys of the
\* requests above and accepts every value.
BridgeRules == [k \in Keys |-> Values]

\* The effective rule set of validate for that driver.
EffectiveRules == MergeRules(validationRules, BridgeRules)

\* The requests made of update: those above, and one with a user key and
\* with a key that no rule names.
ConfigRequests ==
    Requests \cup
    {[description |-> "d1",
      config |-> [k \in {"user.note", "userx"} |-> "1"]]}

ConfigUpdate ==
    \E put \in ConfigRequests, t \in TargetNodes, cn \in BOOLEAN :
        Quiet /\ UpdateBegin(Self, put, t, cn) /\ UNCHANGED held

\* update (with any request), rename and delete are called on one member's
\* entity one after the other.
NextConfig ==
    \/ ConfigUpdate
    \/ EntityRename
    \/ EntityDelete
    \/ UpdateSteps
    \/ RenameSteps

SpecConfig == Init /\ [][NextConfig]_vars

\* ------------------------------------------------- snapshot and restore

\* config[k] = v on a Go map.
MapSet(config, k, v) ==
    [x \in DOMAIN config \cup {k} |-> IF x = k THEN v ELSE config[x]]

\* The key and the value that the caller writes into a map it holds.
WriteKeys == {"ipv4.address"}
WrittenValue == "9"

\* The caller calls update(newSpec, ..) after configChanged(newSpec):
\* n.config is from now on the map of newSpec.
SnapshotApply ==
    \E t \in TargetNodes, cn \in BOOLEAN :
        /\ Quiet
        /\ held.stage = "taken"
        /\ UpdateBegin(Self, held.newSpec, t, cn)
        /\ held' = [held EXCEPT !.stage = "applied", !.alias = {"newSpec"}]

\* The caller reverts: update(previousSpec, ..) with the spec that
\* configChanged returned, and the target node and the flag it applied
\* newSpec with; n.config is from now on the map of previousSpec.
SnapshotRestore ==
    /\ Quiet
    /\ held.stage = "applied"
    /\ UpdateBegin(Self, held.previousSpec, call[Self].target,
                   call[Self].notification)
    /\ held' = [held EXCEPT !.stage = "restored", !.alias = {"previousSpec"}]

\* The caller writes a key of the Config map of one of its specs; when that
\* map is n.config the entity sees the write.
SpecWrite(h, k) ==
    /\ Quiet
    /\ held.stage \in {"taken", "applied"}
    /\ held' = [held EXCEPT
                  ![h].config = MapSet(@, k, WrittenValue),
                  !.touched = @ \cup {h}]
    /\ mem' = IF h \in held.alias
              THEN [mem EXCEPT ![Self].config = MapSet(@, k, WrittenValue)]
              ELSE mem
    /\ UNCHANGED <<db, fs, pc, call, net, replies, result, stat, ncalls, nfail>>

\* The caller writes a key of the map that Config() returned, which is
\* n.config; the specs whose map that is see the write.
LiveWrite(k) ==
    /\ Quiet
    /\ held.stage \in {"taken", "applied"}
    /\ mem' = [mem EXCEPT ![Self].config = MapSet(@, k, WrittenValue)]
    /\ held' = [held EXCEPT
                  !.newSpec.config =
                      IF "newSpec" \in held.alias
                      THEN MapSet(@, k, WrittenValue) ELSE @,
                  !.previousSpec.config =
                      IF "previousSpec" \in held.alias
                      THEN MapSet(@, k, WrittenValue) ELSE @,
                  !.touched = @ \cup {"live"}]
    /\ UNCHANGED <<db, fs, pc, call, net, replies, result, stat, ncalls, nfail>>

\* A caller that asks configChanged what a request would change, applies the
\* request with update and reverts with update; in between it may write to
\* the maps it holds.  It asks again only when it has reverted.
SnapshotBegin ==
    \E newNetwork \in Requests, ok \in BOOLEAN :
        /\ Quiet
        /\ held.stage \in {"none", "restored"}
        /\ ConfigChangedBegin(Self, newNetwork, ok)

NextSnapshot ==
    \/ SnapshotBegin
    \/ ConfigChangedSteps
    \/ SnapshotApply
    \/ SnapshotRestore
    \/ UpdateSteps
    \/ \E h \in {"newSpec", "previousSpec"}, k \in WriteKeys : SpecWrite(h, k)
    \/ \E k \in WriteKeys : LiveWrite(k)

SpecSnapshot == Init /\ [][NextSnapshot]_vars

\* ------------------------------------------ accessors and HandleHeartbeat

\* shared.IsTrue(value): the value is one of the strings that mean true.
IsTrue(value) == value \in {"true", "1", "yes", "on"}

\* HasDHCPv4() and HasDHCPv6(): the dhcp key is empty or absent, or true.
HasDHCP(config, family) ==
    Get(config, family \o ".dhcp") = "" \/ IsTrue(Get(config, family \o ".dhcp"))

Accessors == {"Name", "Status", "Type", "Config", "HasDHCPv4", "HasDHCPv6"}

\* What an accessor returns of entity e.
Read(e, accessor) ==
    CASE accessor = "Name" -> e.name
      [] accessor = "Status" -> e.status
      [] accessor = "Type" -> e.netType
      [] accessor = "Config" -> e.config
      [] accessor = "HasDHCPv4" -> HasDHCP(e.config, "ipv4")
      [] accessor = "HasDHCPv6" -> HasDHCP(e.config, "ipv6")

\* An accessor is called and returns.
Accessor(n, accessor) ==
    /\ Query(n, [op |-> accessor], "idle",
             [op |-> accessor, err |-> "nil", value |-> Read(mem[n], accessor)])
    /\ stat' = BeginStat(n)
    /\ UNCHANGED <<mem, db, fs, net, replies, nfail, held>>

\* HandleHeartbeat(heartbeatData) returns nil.
HandleHeartbeat(n) ==
    /\ Query(n, [op |-> "HandleHeartbeat"], "idle",
             [op |-> "HandleHeartbeat", err |-> "nil"])
    /\ stat' = BeginStat(n)
    /\ UNCHANGED <<mem, db, fs, net, replies, nfail, held>>

\* The requests that update and configChanged are called with here: those of
\* Requests with another description than the initial one.
LifeRequests == {r \in Requests : r.description # InitialEntity.description}

\* update is called on the entity with one of these requests, any targetNode
\* and either value of clusterNotification.
LifeUpdate ==
    \E put \in LifeRequests, t \in TargetNodes, cn \in BOOLEAN :
        Quiet /\ UpdateBegin(Self, put, t, cn) /\ UNCHANGED held

\* The life of one member's entity with every method: update, rename and
\* delete, and between them configChanged (whose caller lets go of
\* oldNetwork), the accessors, each a call of its own, and HandleHeartbeat.
NextLife ==
    \/ LifeUpdate
    \/ EntityRename
    \/ EntityDelete
    \/ UpdateSteps
    \/ RenameSteps
    \/ \E newNetwork \in LifeRequests, ok \in BOOLEAN :
          Quiet /\ ConfigChangedCall(Self, newNetwork, ok) /\ UNCHANGED held
    \/ \E k \in Keys : ConfigChangedOld(Self, k)
    \/ \E k \in Keys : ConfigChangedNew(Self, k)
    \/ ConfigChangedResult(Self) /\ UNCHANGED held
    \/ \E accessor \in Accessors : Quiet /\ Accessor(Self, accessor)
    \/ Quiet /\ HandleHeartbeat(Self)

SpecLife == Init /\ [][NextLife]_vars

\* ------------------------------------------------------------------ claims

\* Member n's operation is an update that is not a cluster notification.
TopLevel(n) == call[n].op = "update" /\ ~call[n].notification

\* Member n's operation is a top-level update of the whole cluster.
ClusterWide(n) == TopLevel(n) /\ call[n].target = ""

\* Entity e holds the description and config of request put.
Holds(e, put) == e.description = put.description /\ e.config = put.config

Updated == [op |-> "update", err |-> "nil"]

\* The config restricted to the keys that are forwarded to the peers.
Shared(config) ==
    [k \in DOMAIN config \ NodeSpecificNetworkConfig |-> config[k]]

\* Peer p holds what its handler applied of the payload send: the payload's
\* description, the payload's keys with the payload's values, and the
\* node-specific keys that p held itself when the update began.
Applied(p, send) ==
    /\ mem[p].description = send.description
    /\ Shared(mem[p].config) = send.config
    /\ \A k \in NodeSpecificNetworkConfig :
          /\ k \in DOMAIN mem[p].config <=> k \in DOMAIN stat.ownAtBegin[p]
          /\ k \in DOMAIN mem[p].config => mem[p].config[k] = stat.ownAtBegin[p][k]

\* C1: update called as a cluster notification, with any targetNode and on
\* any entity, assigns the description and the config and has then returned
\* nil with the entity holding the request's description and config;
\* NewNotifier and Cluster.UpdateNetwork were not called, nothing was sent
\* and the record is as it was.  The same holds of the update a peer runs
\* when it handles a notification, with the request its handler gives it.
C1_NotificationOnlyAssigns ==
    /\ \A n \in Nodes : (call[n].op = "update" /\ call[n].notification) =>
          /\ pc[n] \in {"config", "idle"}
          /\ mem[n].description = call[n].spec.description
          /\ pc[n] = "idle" => result[n] = Updated /\ Holds(mem[n], call[n].spec)
          /\ stat.notifier = 0
          /\ stat.dbUpdate = 0
          /\ \A p \in Nodes : stat.sent[p] = 0
          /\ net = {}
          /\ db = stat.dbAtBegin
    /\ \A n \in Nodes : (ClusterWide(n) /\ pc[n] = "notifying") =>
          \A p \in Peers(n) : stat.applied[p] > 0 =>
              /\ Applied(p, call[n].send)
              /\ stat.sent[p] = 0
              /\ stat.dbUpdate = 0
              /\ db = stat.dbAtBegin

\* C1 happens: a notification with a target node has updated an entity that
\* an earlier operation had changed already.
C1_Witness ==
    \E n \in Nodes :
        /\ call[n].op = "update" /\ call[n].notification
        /\ call[n].target # ""
        /\ stat.entityAtBegin # InitialEntity
        /\ mem[n].config # stat.entityAtBegin.config
        /\ mem[n].description # stat.entityAtBegin.description

\* C2: while no collaborator has failed, a top-level cluster-wide update on
\* member n makes every other member run update(.., true) at most once at
\* any time and exactly once by the time it returns; no member that handled
\* the notification has sent anything; Cluster.UpdateNetwork has been called
\* once, by n with n's name and request, when update returns nil, and then no
\* notification is in flight and no operation runs; until it returns, a next
\* step is always possible.
C2_NotifiedExactlyOnce ==
    \A n \in Nodes : (ClusterWide(n) /\ nfail = 0) =>
        /\ stat.applied[n] = 0
        /\ \A p \in Peers(n) : stat.applied[p] <= 1 /\ stat.sent[p] = 0
        /\ stat.sent[n] <= NumNodes - 1
        /\ stat.dbUpdate <= 1
        /\ pc[n] # "idle" => ENABLED UpdateSteps
        /\ pc[n] = "idle" =>
              /\ result[n] = Updated
              /\ \A p \in Peers(n) : stat.applied[p] = 1
              /\ stat.sent[n] = NumNodes - 1
              /\ stat.dbUpdate = 1
              /\ stat.lastDb = [NoDbCall EXCEPT !.op = "update",
                                  !.name = mem[n].name,
                                  !.description = call[n].spec.description,
                                  !.config = call[n].spec.config]
              /\ Quiet

\* C2 happens: the second cluster-wide update of a run has returned and every
\* peer has applied it.
C2_Witness ==
    \E n \in Nodes :
        /\ ClusterWide(n) /\ nfail = 0 /\ pc[n] = "idle" /\ ncalls = 2
        /\ \A p \in Peers(n) : stat.applied[p] = 1 /\ Applied(p, call[n].send)
        /\ stat.dbUpdate = 1

\* C3: from the in-memory assignment of a top-level update until its
\* Cluster.UpdateNetwork call, the initiator's entity holds the request while
\* the record is still the one from before the call; nothing is sent before
\* the assignment, and when the database call of a cluster-wide update is
\* due or done every peer has applied its notification and none is in flight.
C3_AssignThenNotifyThenPersist ==
    \A n \in Nodes : TopLevel(n) =>
        /\ pc[n] \in {"notifier", "notifying", "persist"} =>
              /\ Holds(mem[n], call[n].spec)
              /\ stat.dbUpdate = 0
              /\ db = stat.dbAtBegin
        /\ pc[n] = "notifier" =>
              /\ net = {}
              /\ \A p \in Nodes : stat.sent[p] = 0 /\ stat.applied[p] = 0
        /\ (\E m \in net : m.from = n) => Holds(mem[n], call[n].spec)
        /\ (ClusterWide(n) /\ (pc[n] = "persist" \/ stat.dbUpdate > 0)) =>
              /\ net = {}
              /\ \A p \in Peers(n) : stat.applied[p] = 1

\* C3 happens: every peer has been notified, the database call is due, and
\* the initiator's entity differs from the record in description and config.
C3_Witness ==
    \E n \in Nodes :
        /\ ClusterWide(n) /\ pc[n] = "persist"
        /\ \A p \in Peers(n) : stat.applied[p] = 1
        /\ mem[n].config # db.config
        /\ mem[n].description # db.description

\* C4, the state of the notifications in flight: each comes from a
\* cluster-wide update that is being notified and carries the request's
\* description and a config with exactly the request's keys that are not
\* node specific, each with the request's value, whatever the sender's
\* entity holds by now.
C4_PayloadInFlight ==
    \A m \in net :
        LET put == call[m.from].spec IN
        /\ ClusterWide(m.from) /\ pc[m.from] = "notifying"
        /\ m.req.target = ""
        /\ m.req.put.description = put.description
        /\ DOMAIN m.req.put.config = DOMAIN put.config \ NodeSpecificNetworkConfig
        /\ \A k \in DOMAIN m.req.put.config : m.req.put.config[k] = put.config[k]

\* C4, the steps: sending the notifications changes no entity and none of
\* the notifications already in flight, and the database call of a top-level
\* update stores the request's description and whole config.
C4_SendAndPersistStep ==
    \A n \in Nodes :
        /\ (pc[n] = "notifier" /\ pc'[n] = "notifying") =>
              /\ mem' = mem
              /\ net \subseteq net'
              /\ Cardinality(net') = Cardinality(net) + NumNodes - 1
        /\ (pc[n] = "persist" /\ pc'[n] = "idle") =>
              /\ db'.description = call[n].spec.description
              /\ db'.config = call[n].spec.config

\* C4: a cluster-wide update sends every peer the request without its
\* node-specific keys, as a value of its own, and stores the whole request.
C4_FilteredPayload == []C4_PayloadInFlight /\ [][C4_SendAndPersistStep]_vars

\* C4 happens: a notification is in flight whose request had node-specific
\* and other keys, while the sender's entity has been given another config
\* since (by a notification from another member).
C4_Witness ==
    \E m \in net :
        /\ DOMAIN call[m.from].spec.config = Keys
        /\ DOMAIN m.req.put.config = {"ipv4.address"}
        /\ mem[m.from].config # call[m.from].spec.config

\* C5: once NewNotifier or a peer's call has failed in a cluster-wide
\* update, Cluster.UpdateNetwork is not called and the record stays as it
\* was; update returns the error, and the initiator's entity still holds
\* the request.
C5_AbortBeforePersist ==
    \A n \in Nodes :
        (ClusterWide(n) /\ stat.failed \cap {"notifier", "peer"} # {}) =>
            /\ stat.dbUpdate = 0
            /\ db = stat.dbAtBegin
            /\ pc[n] \in {"notifying", "idle"}
            /\ Holds(mem[n], call[n].spec)
            /\ pc[n] = "idle" =>
                  result[n] = [op |-> "update",
                               err |-> IF "notifier" \in stat.failed
                                       THEN "notifier" ELSE "peer"]

\* C5 happens: a peer has rejected the notification, update has returned,
\* and the initiator's entity differs from the record.
C5_Witness ==
    \E n \in Nodes :
        /\ ClusterWide(n) /\ pc[n] = "idle" /\ "peer" \in stat.failed
        /\ \E p \in Peers(n) : stat.applied[p] = 1
        /\ mem[n].config # db.config
        /\ mem[n].description # db.description

\* C6: when Cluster.UpdateNetwork fails in a top-level update, update returns
\* that error, the record is as it was, the initiator's entity holds the
\* request and every peer of a cluster-wide update holds what it applied
\* (what it was sent and its own node-specific keys): nothing more has been
\* sent and nothing is in flight.
C6_NoRollbackOnDbFailure ==
    \A n \in Nodes : (TopLevel(n) /\ "db" \in stat.failed) =>
        /\ pc[n] = "idle"
        /\ result[n] = [op |-> "update", err |-> "db"]
        /\ stat.dbUpdate = 1
        /\ db = stat.dbAtBegin
        /\ Holds(mem[n], call[n].spec)
        /\ net = {}
        /\ \A p \in Peers(n) :
              /\ stat.sent[p] = 0
              /\ IF call[n].target = ""
                 THEN stat.applied[p] = 1 /\ Applied(p, call[n].send)
                 ELSE stat.applied[p] = 0
        /\ stat.sent[n] = IF call[n].target = "" THEN NumNodes - 1 ELSE 0

\* C6 happens: after the failed database call of a cluster-wide update the
\* initiator and every peer hold a config that is not the record's.
C6_Witness ==
    \E n \in Nodes :
        /\ ClusterWide(n) /\ result[n] = [op |-> "update", err |-> "db"]
        /\ mem[n].config # db.config
        /\ \A p \in Peers(n) : mem[p].config # db.config /\ stat.applied[p] = 1

\* C7 as stated: every peer that has applied the notification of a
\* cluster-wide update holds the initiator's description and config.
C7_PeersEqualInitiator ==
    \A n \in Nodes : ClusterWide(n) =>
        \A p \in Peers(n) : stat.applied[p] > 0 =>
            /\ mem[p].description = mem[n].description
            /\ mem[p].config = mem[n].config

\* C7 amended: every peer that has applied the notification of a cluster-wide
\* update holds the initiator's description and agrees with the initiator's
\* config on every key that is not node specific; its node-specific keys are
\* the ones it held itself before the update, since the request's are not
\* forwarded and the peer's handler keeps its own.  So the peer's config is
\* the initiator's exactly when the node-specific keys the peer held are
\* those of the request.
C7_PeersAgreeOnSharedKeys ==
    \A n \in Nodes : ClusterWide(n) =>
        \A p \in Peers(n) : stat.applied[p] > 0 =>
            /\ mem[p].description = mem[n].description
            /\ Shared(mem[p].config) = Shared(mem[n].config)
            /\ \A k \in NodeSpecificNetworkConfig :
                  Get(mem[p].config, k) = Get(stat.ownAtBegin[p], k)
            /\ DOMAIN mem[p].config \cap NodeSpecificNetworkConfig
                  = DOMAIN stat.ownAtBegin[p]
            /\ mem[p].config = mem[n].config
                  <=> stat.ownAtBegin[p] = [k \in DOMAIN call[n].spec.config
                                                     \cap NodeSpecificNetworkConfig
                                              |-> call[n].spec.config[k]]

\* C7 happens: a peer that held a node-specific key of its own has applied
\* the notification of a request without node-specific keys and holds
\* another config than the initiator, while another peer that held none
\* holds the initiator's config.
C7_Witness ==
    \E n \in Nodes :
        /\ ClusterWide(n)
        /\ DOMAIN call[n].spec.config \cap NodeSpecificNetworkConfig = {}
        /\ \E p, q \in Peers(n) :
              /\ stat.applied[p] = 1 /\ stat.applied[q] = 1
              /\ DOMAIN stat.ownAtBegin[p] # {}
              /\ mem[p].config # mem[n].config
              /\ mem[q].config = mem[n].config

\* C8: delete has returned at once, leaving the entity as it was and sending
\* nothing.  As a cluster notification it has not called
\* Cluster.DeleteNetwork, the record is as it was and it returns nil;
\* otherwise it has called Cluster.DeleteNetwork once, with the entity's
\* name, and returns its error (the record kept) or nil (the record gone).
C8_DeleteOnlyTouchesDb ==
    \A n \in Nodes : call[n].op = "delete" =>
        /\ pc[n] = "idle"
        /\ mem[n] = stat.entityAtBegin
        /\ net = {}
        /\ stat.notifier = 0
        /\ \A p \in Nodes : stat.sent[p] = 0 /\ stat.applied[p] = 0
        /\ IF call[n].notification
           THEN /\ stat.dbDelete = 0
                /\ db = stat.dbAtBegin
                /\ result[n] = [op |-> "delete", err |-> "nil"]
           ELSE /\ stat.dbDelete = 1
                /\ stat.lastDb = [NoDbCall EXCEPT !.op = "delete",
                                                  !.name = mem[n].name]
                /\ IF "db" \in stat.failed
                   THEN /\ result[n] = [op |-> "delete", err |-> "db"]
                        /\ db = stat.dbAtBegin
                   ELSE /\ result[n] = [op |-> "delete", err |-> "nil"]
                        /\ db = [stat.dbAtBegin EXCEPT !.name = NoRecord]

\* C8 happens: a renamed entity has been deleted from the database under
\* its new name.
C8_Witness ==
    \E n \in Nodes :
        /\ call[n].op = "delete" /\ ~call[n].notification
        /\ result[n] = [op |-> "delete", err |-> "nil"]
        /\ mem[n].name = "b"
        /\ stat.dbAtBegin.name = "b"
        /\ db.name = NoRecord

\* C9: while rename runs and when it has failed, the entity is as it was
\* when rename was called; Cluster.RenameNetwork is not called before the
\* directory is moved nor after the move has failed, and init is not run
\* after Cluster.RenameNetwork has failed.  When rename returns nil the
\* entity differs from the one before in its name only, which is newName.
C9_RenameFailureKeepsName ==
    \A n \in Nodes : call[n].op = "rename" =>
        /\ pc[n] \in {"move", "renamedb", "reinit"} =>
              mem[n] = stat.entityAtBegin /\ stat.inits = 0
        /\ pc[n] = "move" => stat.dbRename = 0 /\ db = stat.dbAtBegin
        /\ (pc[n] = "idle" /\ result[n].err # "nil") =>
              mem[n] = stat.entityAtBegin /\ stat.inits = 0
        /\ (pc[n] = "idle" /\ result[n].err = "move") =>
              stat.dbRename = 0 /\ db = stat.dbAtBegin /\ "move" \in stat.failed
        /\ (pc[n] = "idle" /\ result[n].err = "db") =>
              stat.dbRename = 1 /\ db = stat.dbAtBegin /\ "db" \in stat.failed
        /\ (pc[n] = "idle" /\ result[n].err = "nil") =>
              /\ mem[n] = [stat.entityAtBegin EXCEPT !.name = call[n].newName]
              /\ stat.inits = 1 /\ stat.dbRename = 1
              /\ db = [stat.dbAtBegin EXCEPT !.name = call[n].newName]
        /\ "move" \in stat.failed => pc[n] = "idle" /\ result[n].err = "move"
        /\ "db" \in stat.failed => pc[n] = "idle" /\ result[n].err = "db"

\* C9 happens: Cluster.RenameNetwork has failed after the directory was moved
\* to another name.
C9_Witness ==
    \E n \in Nodes :
        /\ call[n].op = "rename" /\ pc[n] = "idle"
        /\ result[n] = [op |-> "rename", err |-> "db"]
        /\ stat.moved = 1
        /\ call[n].newName # mem[n].name

\* C10 as stated: when rename has returned, the directory has not been moved
\* to newName while the record and the entity still carry the old name.
C10_DirectoryFollowsRecord ==
    \A n \in Nodes : (call[n].op = "rename" /\ pc[n] = "idle") =>
        ~ /\ stat.moved = 1
          /\ call[n].newName # stat.entityAtBegin.name
          /\ call[n].newName \in fs[n]
          /\ stat.entityAtBegin.name \notin fs[n]
          /\ db.name = stat.entityAtBegin.name
          /\ mem[n].name = stat.entityAtBegin.name

\* The directories of a member after rename's os.RemoveAll and os.Rename
\* have succeeded, from the directories, the name and newName at the call.
Renamed(dirs, old, new) ==
    IF old \in dirs \ {new} THEN (dirs \ {old, new}) \cup {new}
    ELSE dirs \ {new}

\* C11 as stated: in a rename the directory that existed for newName is gone
\* before anything is moved; when rename has returned nil the directory of
\* the old name (when there was one) is the directory of newName, no
\* directory has the old name, the record and the entity are named newName;
\* and the name that Cluster.RenameNetwork was called with, and whose
\* directory was moved, is the name the entity had when rename was called
\* (the newName of an earlier rename).
C11_RenameClearsThenMoves ==
    \A n \in Nodes : call[n].op = "rename" =>
        LET old == stat.entityAtBegin.name
            new == call[n].newName
        IN  /\ pc[n] = "move" =>
                  /\ new \notin fs[n]
                  /\ fs[n] = stat.fsAtBegin \ {new}
                  /\ stat.moved = 0
            /\ stat.moved = 1 => old \in stat.fsAtBegin \ {new}
            /\ stat.dbRename > 0 =>
                  stat.lastDb = [NoDbCall EXCEPT !.op = "rename",
                                                 !.name = old, !.newName = new]
            /\ (pc[n] = "idle" /\ result[n].err = "nil") =>
                  /\ fs[n] = Renamed(stat.fsAtBegin, old, new)
                  /\ old # new => old \notin fs[n]
                  /\ db.name = new
                  /\ stat.dbAtBegin.name = old
                  /\ mem[n].name = new

\* C12: validate(c, driverRules) with R the common rules merged with the
\* driver rules has returned nil exactly when every rule of R accepts the
\* value c holds for its key ("" when c has no such key) and every key of c
\* is a key of R or starts with "user."; while it runs and when it has
\* returned, c, the entity, the record and the directories are as they were.
C12_ValidateIffRulesAndKeys ==
    \A n \in Nodes : call[n].op = "validate" =>
        LET c == call[n].config
            R == MergeRules(validationRules, call[n].driverRules)
            good == /\ \A k \in DOMAIN R : Get(c, k) \in R[k]
                    /\ \A k \in DOMAIN c :
                          k \in DOMAIN R \/ (Len(k) >= 5 /\ SubSeq(k, 1, 5) = "user.")
        IN  /\ pc[n] = "idle" => (result[n].err = "nil" <=> good)
            /\ (pc[n] = "idle" /\ result[n].err # "nil") =>
                  result[n].err[2] = mem[n].name
            /\ mem[n] = stat.entityAtBegin
            /\ db = stat.dbAtBegin
            /\ fs[n] = stat.fsAtBegin
            /\ net = {}

\* C12 happens: validate has returned nil for a config with a user key that
\* no rule names and without the key of a rule that accepts the empty string.
C12_Witness ==
    \E n \in Nodes :
        /\ call[n].op = "validate" /\ pc[n] = "idle" /\ result[n].err = "nil"
        /\ DOMAIN call[n].config = {"ipv4.address", "user.note"}
        /\ DOMAIN call[n].driverRules = {"ipv4.address", "mtu"}
        /\ call[n].driverRules["ipv4.address"] = {"1"}

\* The keys on which configs old and new differ, a key that a config does
\* not have counting as the empty string.
Differing(old, new) ==
    {k \in DOMAIN old \cup DOMAIN new :
        (IF k \in DOMAIN old THEN old[k] ELSE "") #
        (IF k \in DOMAIN new THEN new[k] ELSE "")}

\* Key k starts with "user.".
UserKey(k) == Len(k) >= 5 /\ SubSeq(k, 1, 5) = "user."

\* C13: configChanged(newSpec) has returned (its copy of the config made)
\* changed = true exactly when the description differs from the entity's or
\* the two configs differ on some key, and a list without duplicates of
\* exactly the differing keys that are not user keys; so a newSpec equal to
\* the entity gives false and the empty list, and a difference in user keys
\* only gives true and the empty list.  It fails only when shared.DeepCopy
\* does, and then returns false and no list.
C13_ChangedIffDiffers ==
    \A n \in Nodes : (call[n].op = "configChanged" /\ pc[n] = "idle") =>
        LET new == call[n].newNetwork
            diff == Differing(mem[n].config, new.config)
            keys == result[n].changedKeys
        IN  IF result[n].err # "nil"
            THEN /\ stat.failed = {"copy"}
                 /\ ~result[n].changed
                 /\ result[n].keysNil
            ELSE /\ stat.failed = {}
                 /\ ~result[n].keysNil
                 /\ result[n].changed <=>
                       (new.description # mem[n].description \/ diff # {})
                 /\ Elems(keys) = {k \in diff : ~UserKey(k)}
                 /\ Len(keys) = Cardinality(Elems(keys))
                 /\ (new.description = mem[n].description /\ new.config = mem[n].config)
                       => (~result[n].changed /\ keys = <<>>)
                 /\ (diff # {} /\ \A k \in diff : UserKey(k))
                       => (result[n].changed /\ keys = <<>>)

\* C13 happens: configChanged has returned for a config that differs from
\* the entity's in a key that both have (seen by both loops), in a key that
\* only the entity has, and in a user key.
C13_Witness ==
    \E n \in Nodes :
        /\ call[n].op = "configChanged" /\ pc[n] = "idle"
        /\ mem[n].config =
              [k \in DiffKeys |-> IF k = "ipv4.address" THEN "2" ELSE "1"]
        /\ call[n].newNetwork.config =
              [k \in {"ipv4.address", "user.note"} |->
                  IF k = "ipv4.address" THEN "1" ELSE "2"]
        /\ result[n].err = "nil"
        /\ result[n].changed
        /\ result[n].changedKeys = <<"mtu", "ipv4.address">>

\* Some item of the list refers to the network of that name.
Refers(list, name) == \E x \in DOMAIN list : name \in list[x].refs

\* Asking some item of the list fails.
Fails(list) == \E x \in DOMAIN list : list[x].err

\* Item x of the list is a hit and asking no item before it fails.
HitAt(list, x, name) ==
    /\ name \in list[x].refs
    /\ \A y \in 1..(x - 1) : ~list[y].err

\* C14: IsUsed has returned.  It returns true (with no error) exactly when an
\* instance refers to the entity's name with no failure before it, or no
\* instance refers to it nor fails, the profiles are loaded and a profile
\* refers to it with no failure before; no profile is asked, nor are the
\* profiles loaded, after a hit among the instances.  It returns false with
\* no error exactly when both lists were loaded and gone through with no hit
\* and no failure; with any failure reached before a hit it returns false and
\* that error.  When nothing fails it returns true exactly when an instance
\* or a profile refers to the name (the profiles being those that
\* GetProfiles returned, none when it was not called).  Entity, record and
\* directories are as they were.
C14_IsUsedIffReferenced ==
    \A n \in Nodes : (call[n].op = "IsUsed" /\ pc[n] = "idle") =>
        LET name == mem[n].name
            insts == call[n].instances
            profs == call[n].profiles
            r == result[n]
            loadFailed == "LoadFromAllProjects" \in stat.failed
            profilesFailed == "GetProfiles" \in stat.failed
            instHit == \E x \in DOMAIN insts : HitAt(insts, x, name)
            profHit == \E x \in DOMAIN profs : HitAt(profs, x, name)
        IN  /\ r.used <=>
                  /\ ~loadFailed
                  /\ \/ instHit
                     \/ /\ ~Refers(insts, name) /\ ~Fails(insts)
                        /\ ~profilesFailed /\ profHit
            /\ r.used => r.err = "nil"
            /\ (r.used /\ instHit) => (~call[n].loaded /\ call[n].j = 1)
            /\ (~r.used /\ r.err = "nil") <=>
                  /\ ~loadFailed /\ ~profilesFailed
                  /\ ~Refers(insts, name) /\ ~Refers(profs, name)
                  /\ ~Fails(insts) /\ ~Fails(profs)
                  /\ call[n].loaded
            /\ (stat.failed = {} /\ ~Fails(insts) /\ ~Fails(profs)) =>
                  (r.used <=> (Refers(insts, name) \/ Refers(profs, name)))
            /\ loadFailed => r = [op |-> "IsUsed", used |-> FALSE,
                                  err |-> "LoadFromAllProjects"]
            /\ profilesFailed => r = [op |-> "IsUsed", used |-> FALSE,
                                      err |-> "GetProfiles"]
            /\ (~loadFailed /\ ~instHit /\ Fails(insts)) =>
                  r = [op |-> "IsUsed", used |-> FALSE,
                       err |-> "IsInUseByInstance"]
            /\ mem[n] = stat.entityAtBegin
            /\ db = stat.dbAtBegin
            /\ fs[n] = stat.fsAtBegin

\* C14 happens: no instance refers to network "b", the second profile does,
\* and IsUsed on the entity named "b" has returned true.
C14_Witness ==
    \E n \in Nodes :
        /\ call[n].op = "IsUsed" /\ pc[n] = "idle"
        /\ mem[n].name = "b"
        /\ Len(call[n].instances) = 2 /\ ~Refers(call[n].instances, "b")
        /\ Len(call[n].profiles) = 2
        /\ "a" \in call[n].profiles[1].refs /\ "b" \in call[n].profiles[2].refs
        /\ result[n] = [op |-> "IsUsed", used |-> TRUE, err |-> "nil"]

\* An entry is well formed: two IP literals separated by one hyphen, each
\* with or without white space around it.
WellFormed(entry) ==
    LET parts == Split(entry, Runes("-"))
    IN  /\ Len(parts) = 2
        /\ \E lit \in IPv4Literals \cup IPv6Literals : Runes(lit) = TrimSpace(parts[1])
        /\ \E lit \in IPv4Literals \cup IPv6Literals : Runes(lit) = TrimSpace(parts[2])

\* The well-formed entries of a list, in the order of the list.
RECURSIVE WellFormedOf(_)
WellFormedOf(entries) ==
    IF Len(entries) = 0 THEN <<>>
    ELSE (IF WellFormed(Head(entries)) THEN <<Head(entries)>> ELSE <<>>)
         \o WellFormedOf(Tail(entries))

\* C15 as stated: DHCPv4Ranges and DHCPv6Ranges have returned a slice that
\* is not nil with one range for each well-formed entry of the ranges value,
\* in order, its start and end the two literals, and nothing for any other
\* entry; nothing for an empty or absent value.
C15_MalformedEntriesSkipped ==
    \A n \in Nodes : (call[n].op = "DHCPRanges" /\ pc[n] = "idle") =>
        LET value == GetRunes(mem[n].config, call[n].family \o ".dhcp.ranges")
            good == IF value = <<>> THEN <<>>
                    ELSE WellFormedOf(Split(value, Runes(",")))
            items == result[n].ranges.items
        IN  /\ ~result[n].ranges.isNil
            /\ result[n].err = "nil"
            /\ Len(items) = Len(good)
            /\ \A i \in DOMAIN items :
                  /\ Runes(items[i].Start.addr) = TrimSpace(Split(good[i], Runes("-"))[1])
                  /\ Runes(items[i].End.addr) = TrimSpace(Split(good[i], Runes("-"))[2])

\* C16 as stated: the config of every entity holds only keys of the effective
\* rule set and keys that start with "user.".
C16_ConfigKeysKnown ==
    \A n \in Nodes : \A k \in DOMAIN mem[n].config :
        k \in DOMAIN EffectiveRules \/ UserKey(k)

\* Member n's operation is a top-level update with a target node.
Targeted(n) == TopLevel(n) /\ call[n].target # ""

\* C17, the states of a top-level update with a target node: NewNotifier is
\* not called, nothing is sent, in flight or applied by a peer; the update
\* goes straight to Cluster.UpdateNetwork, which has been called exactly once
\* when update has returned, with the entity's name and the request's
\* description and whole config; update returns that call's error, and on
\* nil the record holds the request, node-specific keys too.
C17_TargetedState ==
    \A n \in Nodes : Targeted(n) =>
        /\ stat.notifier = 0
        /\ net = {}
        /\ \A p \in Nodes : stat.sent[p] = 0 /\ stat.applied[p] = 0
        /\ mem[n].description = call[n].spec.description
        /\ pc[n] # "config" => Holds(mem[n], call[n].spec)
        /\ pc[n] \in {"config", "persist", "idle"}
        /\ pc[n] # "idle" => stat.dbUpdate = 0 /\ db = stat.dbAtBegin
        /\ pc[n] = "idle" =>
              /\ stat.dbUpdate = 1
              /\ stat.lastDb = [NoDbCall EXCEPT !.op = "update",
                                  !.name = mem[n].name,
                                  !.description = call[n].spec.description,
                                  !.config = call[n].spec.config]
              /\ result[n].op = "update"
              /\ result[n].err = (IF "db" \in stat.failed THEN "db" ELSE "nil")
              /\ result[n].err = "nil" =>
                    db = [stat.dbAtBegin EXCEPT
                            !.description = call[n].spec.description,
                            !.config = call[n].spec.config]
              /\ result[n].err = "db" => db = stat.dbAtBegin

\* C17, the steps: no step into or within a top-level update with a target
\* node changes the entity of another member.
C17_TargetedStep ==
    \A n \in Nodes :
        (call'[n].op = "update" /\ ~call'[n].notification
         /\ call'[n].target # "") =>
            \A p \in Peers(n) : mem'[p] = mem[p]

\* C17: a top-level update with a target node notifies no one and changes no
\* peer, and calls Cluster.UpdateNetwork once with the unfiltered request.
C17_TargetedUpdatePersistsOnly ==
    []C17_TargetedState /\ [][C17_TargetedStep]_vars

\* C17 happens: a top-level update with a target node and a request with a
\* node-specific key has returned nil; the record holds the key and the
\* peers hold another config.
C17_Witness ==
    \E n \in Nodes :
        /\ Targeted(n) /\ pc[n] = "idle" /\ result[n] = Updated
        /\ DOMAIN call[n].spec.config = Keys
        /\ db.config = call[n].spec.config
        /\ \A p \in Peers(n) : mem[p].config # mem[n].config

\* C18: while configChanged runs and when it has returned the entity is as it
\* was; the previousSpec it returned holds the entity's description and
\* config of that time, and keeps them whatever is written to n.config or to
\* newSpec and whatever update assigns, as long as nothing is written through
\* previousSpec itself; a write through previousSpec or newSpec does not
\* reach the entity before that spec is given to update; after
\* update(newSpec, ..) the entity holds newSpec, and after a following
\* update(previousSpec, ..) it holds the description and config it had
\* before configChanged.
C18_SnapshotRestores ==
    /\ (call[Self].op = "configChanged" /\ "live" \notin held.touched) =>
          /\ mem[Self] = stat.entityAtBegin
          /\ Holds(mem[Self], held.before)
    /\ (held.stage # "none" /\ "previousSpec" \notin held.touched) =>
          /\ held.previousSpec = held.before
          /\ (held.stage = "restored" /\ pc[Self] # "config") =>
                Holds(mem[Self], held.before)
    /\ (held.stage = "taken" /\ "live" \notin held.touched) =>
          Holds(mem[Self], held.before)
    /\ (held.stage = "applied" /\ pc[Self] # "config") =>
          Holds(mem[Self], held.newSpec)
    /\ (call[Self].op = "configChanged" /\ pc[Self] = "idle"
        /\ result[Self].err = "nil") =>
          result[Self].previous = held.before

\* C18 happens: after configChanged the caller wrote to n.config, applied
\* newSpec, wrote to newSpec, and reverted with previousSpec: the entity holds
\* again what it held before, which is neither newSpec nor what was written.
C18_Witness ==
    /\ held.stage = "restored"
    /\ held.touched = {"live", "newSpec"}
    /\ pc[Self] = "idle"
    /\ Holds(mem[Self], held.before)
    /\ mem[Self].config # held.newSpec.config
    /\ mem[Self].description # held.newSpec.description

\* The calls that only read the entity.
Readers == Accessors \cup {"configChanged", "HandleHeartbeat", "delete"}

\* C19, one step and one member: id, netType and status stay; the name
\* changes only in the last step of rename (its init), which keeps
\* description and config; the description changes only where update
\* assigns it and the config only where update assigns it (in a call of
\* update, or when a member handles a notification), each keeping every
\* other field; and no step of delete, configChanged, HandleHeartbeat or an
\* accessor changes any field.
C19_FrameStep ==
    \A n \in Nodes :
        /\ mem'[n].id = mem[n].id
        /\ mem'[n].netType = mem[n].netType
        /\ mem'[n].status = mem[n].status
        /\ mem'[n].name # mem[n].name =>
              /\ call[n].op = "rename" /\ pc[n] = "reinit"
              /\ mem'[n].name = call[n].newName
              /\ mem'[n].description = mem[n].description
              /\ mem'[n].config = mem[n].config
        /\ mem'[n].description # mem[n].description =>
              /\ \/ pc[n] = "idle" /\ call'[n].op = "update"
                 \/ \E m \in net \ net' : m.to = n /\ m.stage = "sent"
              /\ mem'[n].name = mem[n].name
              /\ mem'[n].config = mem[n].config
        /\ mem'[n].config # mem[n].config =>
              /\ \/ pc[n] = "config" /\ call[n].op = "update"
                 \/ \E m \in net \ net' : m.to = n /\ m.stage = "description"
              /\ mem'[n].name = mem[n].name
              /\ mem'[n].description = mem[n].description
        /\ call'[n].op \in Readers => mem'[n] = mem[n]

\* C19: the frame of the entity's methods, and id and netType are those
\* that init set.
C19_Frame ==
    /\ [](\A n \in Nodes : mem[n].id = InitialEntity.id
                           /\ mem[n].netType = InitialEntity.netType)
    /\ [][C19_FrameStep]_vars

\* C19 happens: an entity that update and rename have changed has its
\* config compared by configChanged and still has the id, netType and status
\* that init set.
C19_Witness ==
    /\ call[Self].op = "configChanged" /\ pc[Self] = "idle"
    /\ ncalls = 2
    /\ mem[Self].name # InitialEntity.name
    /\ mem[Self].description # InitialEntity.description
    /\ mem[Self].config # InitialEntity.config
    /\ mem[Self].id = InitialEntity.id
    /\ mem[Self].netType = InitialEntity.netType
    /\ mem[Self].status = InitialEntity.status

\* C20, one step: a top-level update that began when no other operation ran
\* returns nil, and the member's entity then holds the description and the
\* config that the record in the database holds.
C20_SerialStep ==
    \A n \in Nodes :
        (/\ pc[n] # "idle" /\ pc'[n] = "idle"
         /\ TopLevel(n)
         /\ result'[n] = Updated
         /\ stat.alone) =>
            /\ Holds(mem'[n], db')
            /\ Holds(db', call[n].spec)

\* C20: update takes no lock, so two members may run it at the same time
\* (C20_Witness is what that allows); when no collaborator fails and a
\* top-level update runs with no other beside it, the initiator's
\* description and config are those of the database record when it returns.
C20_SerialUpdateAgrees == [][C20_SerialStep]_vars

\* C20 happens: two members have run top-level cluster-wide updates with
\* different configs at the same time, both have returned nil, and a member
\* holds another value of a key that every member shares than the database
\* record, and than another member.
C20_Witness ==
    /\ Quiet
    /\ \A n \in Initiators : ClusterWide(n) /\ result[n] = Updated
    /\ call[1].spec.config # call[2].spec.config
    /\ \E n \in Nodes :
          /\ Get(mem[n].config, "ipv4.address") # Get(db.config, "ipv4.address")
          /\ mem[n].config # db.config
          /\ \E m \in Nodes \ {n} :
                /\ Get(mem[m].config, "ipv4.address")
                      # Get(mem[n].config, "ipv4.address")
                /\ mem[m].config # mem[n].config

=============================================================================
